---- MODULE Spec2Model ----
(***************************************************************************)
(* A model of static/js/app.js: the score bar reveal run at                *)
(* DOMContentLoaded, and copyLink with its button flash.                   *)
(*                                                                         *)
(* The browser's event loop is modelled as it schedules this script: one   *)
(* task at a time, the microtask queue drained before the next task, the   *)
(* animation-frame callbacks of one frame run in registration order, and   *)
(* callbacks registered during a frame run in the next one.                *)
(*                                                                         *)
(* The label written by a successful copy starts with the character        *)
(* U+2713 (a check mark); strings of the model are ASCII, so the label is  *)
(* spelled "U+2713 Copied!" here.                                          *)
(***************************************************************************)
EXTENDS Integers, Sequences, FiniteSets, TLC

\* ---------------------------------------------------------------- bounds
NumEls == 2
MaxCalls == 2

\* ------------------------------------------------------------- constants
FlashDelay == 2200

Els == 1..NumEls

\* Inline widths a page may author on a score bar ("" is an unset width).
Widths == {"", "73%"}

\* The url strings handed to copyLink.
Urls == {"https://example.com/listing/42", "https://example.com/listing/7"}

\* The value of the closure variable `target` before the handler has bound it.
NoTarget == "<unbound>"

\* document.getElementById('copy-btn') when no such element exists.
NullBtn == [label |-> "<null>", bg |-> "<null>", color |-> "<null>"]

\* Label and colours the page may give #copy-btn.
InitialButtons ==
  { [label |-> "Copy", bg |-> "", color |-> ""],
    [label |-> "Share", bg |-> "#edf2f7", color |-> "#2d3748"] }

SuccessStyle == [label |-> "U+2713 Copied!", bg |-> "#c6f6d5", color |-> "#276749"]

FailureStyle == [label |-> "Failed", bg |-> "#fed7d7", color |-> "#9b2c2c"]

\* Amounts by which the clock advances between two tasks.
Ticks == {FlashDelay}

Max(a, b) == IF a >= b THEN a ELSE b

VARIABLES
  loaded,        \* DOMContentLoaded has been dispatched
  width,         \* el.style.width of every matched element
  target,        \* the closure variable `target` of every element
  barPc,         \* where each element's reveal sequence stands
  rafNext,       \* frame callbacks registered for the next frame
  rafCur,        \* frame callbacks of the running frame not yet run
  framesSince,   \* frames begun since the element's zero-set
  authored,      \* the width each element had before the handler ran
  widthLog,      \* the values the script has assigned to each el.style.width
  hasClipboard,  \* navigator.clipboard is truthy
  btnPresent,    \* an element with id copy-btn exists
  btn,           \* textContent, style.background, style.color of #copy-btn
  btn0,          \* the button as the page authored it
  clipboard,     \* the text on the system clipboard
  bodyChildren,  \* temporary textareas attached to document.body
  calls,         \* the copyLink invocations so far
  writes,        \* the write requests the clipboard has received
  microtasks,    \* promise reactions queued
  timers,        \* setTimeout callbacks pending, in expiry order
  uncaught       \* an exception reached copyLink's caller

barVars == <<loaded, width, target, barPc, rafNext, rafCur, framesSince, authored,
            widthLog>>

copyVars == <<hasClipboard, btnPresent, btn, btn0, clipboard, bodyChildren,
              calls, writes, microtasks, timers, uncaught>>

vars == <<loaded, width, target, barPc, rafNext, rafCur, framesSince, authored,
          widthLog, hasClipboard, btnPresent, btn, btn0, clipboard, bodyChildren,
          calls, writes, microtasks, timers, uncaught>>

Init ==
  /\ loaded = FALSE
  /\ authored \in [Els -> Widths]
  /\ width = authored
  /\ target = [e \in Els |-> NoTarget]
  /\ barPc = [e \in Els |-> "init"]
  /\ rafNext = <<>>
  /\ rafCur = <<>>
  /\ framesSince = [e \in Els |-> 0]
  /\ widthLog = [e \in Els |-> <<>>]
  /\ hasClipboard \in BOOLEAN
  /\ btnPresent \in BOOLEAN
  /\ btn0 \in (IF btnPresent THEN InitialButtons ELSE {NullBtn})
  /\ btn = btn0
  /\ clipboard = ""
  /\ bodyChildren = {}
  /\ calls = <<>>
  /\ writes = <<>>
  /\ microtasks = <<>>
  /\ timers = <<>>
  /\ uncaught = FALSE

\* A new task starts only when the running frame's callbacks and the
\* microtask queue are exhausted.
Idle == microtasks = <<>> /\ rafCur = <<>>

\* ------------------------------------------------------ score bar reveal

\* Mutant: `target` is read after the width has been set to '0'.
DOMContentLoadedReadsAfterZero ==
  /\ Idle
  /\ ~loaded
  /\ loaded' = TRUE
  /\ width' = [e \in Els |-> "0"]
  /\ widthLog' = [e \in Els |-> Append(widthLog[e], "0")]
  /\ target' = [e \in Els |-> width'[e]]
  /\ barPc' = [e \in Els |-> "zeroed"]
  /\ framesSince' = [e \in Els |-> 0]
  /\ rafNext' = rafNext \o [k \in 1..NumEls |-> [el |-> k, cb |-> "outer"]]
  /\ UNCHANGED <<rafCur, authored>>
  /\ UNCHANGED copyVars

\* Mutant: the width is not set to '0' before the callbacks are registered.
DOMContentLoadedSkipsZero ==
  /\ Idle
  /\ ~loaded
  /\ loaded' = TRUE
  /\ target' = [e \in Els |-> width[e]]
  /\ barPc' = [e \in Els |-> "zeroed"]
  /\ framesSince' = [e \in Els |-> 0]
  /\ rafNext' = rafNext \o [k \in 1..NumEls |-> [el |-> k, cb |-> "outer"]]
  /\ UNCHANGED <<width, rafCur, authored, widthLog>>
  /\ UNCHANGED copyVars

\* Mutant: `target` is one variable shared by all iterations, so every
\* callback sees the value read for the last element.
DOMContentLoadedSharesTarget ==
  /\ Idle
  /\ ~loaded
  /\ loaded' = TRUE
  /\ target' = [e \in Els |-> width[NumEls]]
  /\ width' = [e \in Els |-> "0"]
  /\ widthLog' = [e \in Els |-> Append(widthLog[e], "0")]
  /\ barPc' = [e \in Els |-> "zeroed"]
  /\ framesSince' = [e \in Els |-> 0]
  /\ rafNext' = rafNext \o [k \in 1..NumEls |-> [el |-> k, cb |-> "outer"]]
  /\ UNCHANGED <<rafCur, authored>>
  /\ UNCHANGED copyVars

\* fills.forEach: read target, set width '0', register the outer callback.
DOMContentLoaded ==
  /\ Idle
  /\ ~loaded
  /\ loaded' = TRUE
  /\ target' = [e \in Els |-> width[e]]
  /\ width' = [e \in Els |-> "0"]
  /\ widthLog' = [e \in Els |-> Append(widthLog[e], "0")]
  /\ barPc' = [e \in Els |-> "zeroed"]
  /\ framesSince' = [e \in Els |-> 0]
  /\ rafNext' = rafNext \o [k \in 1..NumEls |-> [el |-> k, cb |-> "outer"]]
  /\ UNCHANGED <<rafCur, authored>>
  /\ UNCHANGED copyVars

\* The browser starts a frame: the callbacks registered so far are its list.
BeginFrame ==
  /\ Idle
  /\ rafNext # <<>>
  /\ rafCur' = rafNext
  /\ rafNext' = <<>>
  /\ framesSince' = [e \in Els |->
        IF barPc[e] \in {"zeroed", "frame1"} THEN framesSince[e] + 1
        ELSE framesSince[e]]
  /\ UNCHANGED <<loaded, width, target, barPc, authored, widthLog>>
  /\ UNCHANGED copyVars

\* Mutant: a single requestAnimationFrame, whose callback restores the width.
OuterFrameCallbackRestores ==
  /\ microtasks = <<>>
  /\ rafCur # <<>>
  /\ Head(rafCur).cb = "outer"
  /\ LET e == Head(rafCur).el IN
       /\ width' = [width EXCEPT ![e] = target[e]]
       /\ widthLog' = [widthLog EXCEPT ![e] = Append(@, target[e])]
       /\ barPc' = [barPc EXCEPT ![e] = "done"]
  /\ rafCur' = Tail(rafCur)
  /\ UNCHANGED <<loaded, target, rafNext, framesSince, authored>>
  /\ UNCHANGED copyVars

\* The outer requestAnimationFrame callback: registers the inner one.
OuterFrameCallback ==
  /\ microtasks = <<>>
  /\ rafCur # <<>>
  /\ Head(rafCur).cb = "outer"
  /\ LET e == Head(rafCur).el IN
       /\ rafNext' = Append(rafNext, [el |-> e, cb |-> "inner"])
       /\ barPc' = [barPc EXCEPT ![e] = "frame1"]
  /\ rafCur' = Tail(rafCur)
  /\ UNCHANGED <<loaded, width, target, framesSince, authored, widthLog>>
  /\ UNCHANGED copyVars

\* Mutant: the restore is skipped when `target` is the empty string.
InnerFrameCallbackSkipsEmpty ==
  /\ microtasks = <<>>
  /\ rafCur # <<>>
  /\ Head(rafCur).cb = "inner"
  /\ LET e == Head(rafCur).el IN
       /\ width' = [width EXCEPT ![e] = IF target[e] = "" THEN @ ELSE target[e]]
       /\ widthLog' = [widthLog EXCEPT ![e] =
                         IF target[e] = "" THEN @ ELSE Append(@, target[e])]
       /\ barPc' = [barPc EXCEPT ![e] = "done"]
  /\ rafCur' = Tail(rafCur)
  /\ UNCHANGED <<loaded, target, rafNext, framesSince, authored>>
  /\ UNCHANGED copyVars

\* The inner requestAnimationFrame callback: el.style.width = target.
InnerFrameCallback ==
  /\ microtasks = <<>>
  /\ rafCur # <<>>
  /\ Head(rafCur).cb = "inner"
  /\ LET e == Head(rafCur).el IN
       /\ width' = [width EXCEPT ![e] = target[e]]
       /\ widthLog' = [widthLog EXCEPT ![e] = Append(@, target[e])]
       /\ barPc' = [barPc EXCEPT ![e] = "done"]
  /\ rafCur' = Tail(rafCur)
  /\ UNCHANGED <<loaded, target, rafNext, framesSince, authored>>
  /\ UNCHANGED copyVars

\* ------------------------------------------------------------- the flash

\* Mutant: the original label and colours are read after the overwrite.
FlashCopyButtonReadsAfterWrite(present, b, ts, inv, style) ==
  IF ~present
  THEN [btn |-> b, timers |-> ts, threw |-> FALSE]
  ELSE [btn |-> style,
        timers |-> Append(ts, [inv |-> inv, orig |-> style, remaining |-> FlashDelay]),
        threw |-> FALSE]

\* Mutant: no `if (!btn) return`, so a missing button is dereferenced.
FlashCopyButtonNoGuard(present, b, ts, inv, style) ==
  IF ~present
  THEN [btn |-> b, timers |-> ts, threw |-> TRUE]
  ELSE [btn |-> style,
        timers |-> Append(ts, [inv |-> inv, orig |-> b, remaining |-> FlashDelay]),
        threw |-> FALSE]

\* Mutant: a new flash clears the timers of the flashes before it.
FlashCopyButtonCancelsPrevious(present, b, ts, inv, style) ==
  IF ~present
  THEN [btn |-> b, timers |-> ts, threw |-> FALSE]
  ELSE [btn |-> style,
        timers |-> << [inv |-> inv, orig |-> b, remaining |-> FlashDelay] >>,
        threw |-> FALSE]

\* Mutant: a flash that starts while another is pending reuses the original
\* of the earliest pending flash instead of reading the button.
FlashCopyButtonKeepsFirstOriginal(present, b, ts, inv, style) ==
  IF ~present
  THEN [btn |-> b, timers |-> ts, threw |-> FALSE]
  ELSE [btn |-> style,
        timers |-> Append(ts, [inv |-> inv,
                               orig |-> IF ts # <<>> THEN ts[1].orig ELSE b,
                               remaining |-> FlashDelay]),
        threw |-> FALSE]

\* _flashCopyButton(label, bg, color), called for invocation inv with the
\* button b and the pending timers ts.  threw: the call raised an exception.
FlashCopyButton(present, b, ts, inv, style) ==
  IF ~present
  THEN [btn |-> b, timers |-> ts, threw |-> FALSE]
  ELSE [btn |-> style,
        timers |-> Append(ts, [inv |-> inv, orig |-> b, remaining |-> FlashDelay]),
        threw |-> FALSE]

\* The bookkeeping of invocation i after a call of _flashCopyButton: the
\* style it was called with, the button it found, and the invocations whose
\* timers were pending when it started.
Flashed(c, present, b, ts, style) ==
  [c EXCEPT !.flash = Append(@, style),
            !.timer = IF present THEN "pending" ELSE @,
            !.prior = IF present THEN b ELSE @,
            !.over = IF present THEN [k \in 1..Len(ts) |-> ts[k].inv] ELSE @]

NewCall(url, path) ==
  [url |-> url, path |-> path, legacyOk |-> FALSE,
   p1 |-> "none", p2 |-> "none", p3 |-> "none",
   flash |-> <<>>, timer |-> "none", prior |-> NullBtn, over |-> <<>>]

\* ------------------------------------------------------------- copyLink

\* document.body.appendChild / removeChild of the temporary textarea.
AppendChild(children, node) == children \cup {node}

\* Mutant: the temporary textarea is left in the document.
RemoveChildSkipped(children, node) == children

RemoveChild(children, node) == children \ {node}

\* document.execCommand('copy'): the selected text reaches the clipboard
\* when the command reports success.
ExecCommandCopy(clip, selection, ok) == IF ok THEN selection ELSE clip

\* Mutant: the write is requested a second time.
WriteTextRetried(ws, inv, text) ==
  ws \o << [inv |-> inv, text |-> text, via |-> "writeText", outcome |-> "pending"],
           [inv |-> inv, text |-> text, via |-> "writeText", outcome |-> "pending"] >>

\* navigator.clipboard.writeText(text): one request handed to the clipboard.
WriteText(ws, inv, text) ==
  Append(ws, [inv |-> inv, text |-> text, via |-> "writeText", outcome |-> "pending"])

\* Mutant: the fallback branch is taken without testing navigator.clipboard.
CopyLinkLegacyUnguarded ==
  /\ Idle
  /\ Len(calls) < MaxCalls
  /\ \E url \in Urls, ok \in BOOLEAN :
       LET inv == Len(calls) + 1
           textarea == [value |-> url, owner |-> inv]
           attached == AppendChild(bodyChildren, textarea)
           selection == IF textarea \in attached THEN textarea.value ELSE ""
           f == FlashCopyButton(btnPresent, btn, timers, inv, SuccessStyle)
           c == [NewCall(url, "legacy") EXCEPT !.legacyOk = ok]
       IN
         /\ clipboard' = ExecCommandCopy(clipboard, selection, ok)
         /\ writes' = Append(writes, [inv |-> inv, text |-> selection,
                                      via |-> "execCommand",
                                      outcome |-> IF ok THEN "ok" ELSE "rejected"])
         /\ bodyChildren' = RemoveChild(attached, textarea)
         /\ btn' = f.btn
         /\ timers' = f.timers
         /\ uncaught' = (uncaught \/ f.threw)
         /\ calls' = Append(calls, Flashed(c, btnPresent, btn, timers, SuccessStyle))
  /\ UNCHANGED <<hasClipboard, btnPresent, btn0, microtasks>>
  /\ UNCHANGED barVars

\* copyLink(url) where navigator.clipboard is falsy (lines 33-45).
CopyLinkLegacy ==
  /\ Idle
  /\ ~hasClipboard
  /\ Len(calls) < MaxCalls
  /\ \E url \in Urls, ok \in BOOLEAN :
       LET inv == Len(calls) + 1
           textarea == [value |-> url, owner |-> inv]
           attached == AppendChild(bodyChildren, textarea)
           selection == IF textarea \in attached THEN textarea.value ELSE ""
           f == FlashCopyButton(btnPresent, btn, timers, inv, SuccessStyle)
           c == [NewCall(url, "legacy") EXCEPT !.legacyOk = ok]
       IN
         /\ clipboard' = ExecCommandCopy(clipboard, selection, ok)
         /\ writes' = Append(writes, [inv |-> inv, text |-> selection,
                                      via |-> "execCommand",
                                      outcome |-> IF ok THEN "ok" ELSE "rejected"])
         /\ bodyChildren' = RemoveChild(attached, textarea)
         /\ btn' = f.btn
         /\ timers' = f.timers
         /\ uncaught' = (uncaught \/ f.threw)
         /\ calls' = Append(calls, Flashed(c, btnPresent, btn, timers, SuccessStyle))
  /\ UNCHANGED <<hasClipboard, btnPresent, btn0, microtasks>>
  /\ UNCHANGED barVars

\* copyLink(url) where navigator.clipboard exists (lines 47-51): the write is
\* requested and the two reactions are registered on the promise chain.
CopyLinkAsync ==
  /\ Idle
  /\ hasClipboard
  /\ Len(calls) < MaxCalls
  /\ \E url \in Urls :
       LET inv == Len(calls) + 1 IN
         /\ writes' = WriteText(writes, inv, url)
         /\ calls' = Append(calls, [NewCall(url, "async") EXCEPT
                                      !.p1 = "pending", !.p2 = "pending",
                                      !.p3 = "pending"])
  /\ UNCHANGED <<hasClipboard, btnPresent, btn, btn0, clipboard, bodyChildren,
                 microtasks, timers, uncaught>>
  /\ UNCHANGED barVars

\* The clipboard settles request k: the promise of writeText is fulfilled
\* (the text is on the clipboard) or rejected, and its reaction is queued.
SettleWrite(k, ok) ==
  /\ Idle
  /\ writes[k].outcome = "pending"
  /\ writes' = [writes EXCEPT ![k].outcome = IF ok THEN "ok" ELSE "rejected"]
  /\ clipboard' = IF ok THEN writes[k].text ELSE clipboard
  /\ calls' = [calls EXCEPT ![writes[k].inv].p1 =
                              IF ok THEN "fulfilled" ELSE "rejected"]
  /\ microtasks' = Append(microtasks, [inv |-> writes[k].inv, job |-> "then"])
  /\ UNCHANGED <<hasClipboard, btnPresent, btn, btn0, bodyChildren, timers, uncaught>>
  /\ UNCHANGED barVars

WriteResolves == \E k \in 1..Len(writes) : SettleWrite(k, TRUE)

WriteRejects == \E k \in 1..Len(writes) : SettleWrite(k, FALSE)

\* Mutant: the success handler ends by throwing, so the rejection handler
\* runs after it.
ThenReactionRethrows ==
  /\ microtasks # <<>>
  /\ Head(microtasks).job = "then"
  /\ LET i == Head(microtasks).inv
         f == FlashCopyButton(btnPresent, btn, timers, i, SuccessStyle)
     IN
       /\ IF calls[i].p1 = "fulfilled"
          THEN /\ btn' = f.btn
               /\ timers' = f.timers
               /\ calls' = [calls EXCEPT ![i] =
                    [Flashed(@, btnPresent, btn, timers, SuccessStyle) EXCEPT
                       !.p2 = "rejected"]]
          ELSE /\ calls' = [calls EXCEPT ![i].p2 = "rejected"]
               /\ UNCHANGED <<btn, timers>>
       /\ microtasks' = Append(Tail(microtasks), [inv |-> i, job |-> "catch"])
  /\ UNCHANGED <<hasClipboard, btnPresent, btn0, clipboard, bodyChildren,
                 writes, uncaught>>
  /\ UNCHANGED barVars

\* The reaction registered by .then(onFulfilled): runs the success flash
\* when the write was fulfilled, passes a rejection on otherwise.
ThenReaction ==
  /\ microtasks # <<>>
  /\ Head(microtasks).job = "then"
  /\ LET i == Head(microtasks).inv
         f == FlashCopyButton(btnPresent, btn, timers, i, SuccessStyle)
     IN
       /\ IF calls[i].p1 = "fulfilled"
          THEN /\ btn' = f.btn
               /\ timers' = f.timers
               /\ calls' = [calls EXCEPT ![i] =
                    [Flashed(@, btnPresent, btn, timers, SuccessStyle) EXCEPT
                       !.p2 = IF f.threw THEN "rejected" ELSE "fulfilled"]]
          ELSE /\ calls' = [calls EXCEPT ![i].p2 = "rejected"]
               /\ UNCHANGED <<btn, timers>>
       /\ microtasks' = Append(Tail(microtasks), [inv |-> i, job |-> "catch"])
  /\ UNCHANGED <<hasClipboard, btnPresent, btn0, clipboard, bodyChildren,
                 writes, uncaught>>
  /\ UNCHANGED barVars

\* Mutant: no .catch on the chain, so a rejection stays unhandled.
CatchReactionMissing ==
  /\ microtasks # <<>>
  /\ Head(microtasks).job = "catch"
  /\ LET i == Head(microtasks).inv IN
       /\ calls' = [calls EXCEPT ![i].p3 = calls[i].p2]
       /\ microtasks' = Tail(microtasks)
  /\ UNCHANGED <<hasClipboard, btnPresent, btn, btn0, clipboard, bodyChildren,
                 writes, timers, uncaught>>
  /\ UNCHANGED barVars

\* The reaction registered by .catch(onRejected): runs the failure flash
\* when the promise returned by .then was rejected.
CatchReaction ==
  /\ microtasks # <<>>
  /\ Head(microtasks).job = "catch"
  /\ LET i == Head(microtasks).inv
         f == FlashCopyButton(btnPresent, btn, timers, i, FailureStyle)
     IN
       /\ IF calls[i].p2 = "rejected"
          THEN /\ btn' = f.btn
               /\ timers' = f.timers
               /\ calls' = [calls EXCEPT ![i] =
                    [Flashed(@, btnPresent, btn, timers, FailureStyle) EXCEPT
                       !.p3 = IF f.threw THEN "rejected" ELSE "fulfilled"]]
          ELSE /\ calls' = [calls EXCEPT ![i].p3 = "fulfilled"]
               /\ UNCHANGED <<btn, timers>>
       /\ microtasks' = Tail(microtasks)
  /\ UNCHANGED <<hasClipboard, btnPresent, btn0, clipboard, bodyChildren,
                 writes, uncaught>>
  /\ UNCHANGED barVars

\* ------------------------------------------------------------ the timers

\* Time passes: every pending timer comes d closer to its expiry.
Tick ==
  /\ Idle
  /\ \E k \in 1..Len(timers) : timers[k].remaining > 0
  /\ \E d \in Ticks :
       timers' = [k \in 1..Len(timers) |->
                    [timers[k] EXCEPT !.remaining = Max(0, @ - d)]]
  /\ UNCHANGED <<hasClipboard, btnPresent, btn, btn0, clipboard, bodyChildren,
                 calls, writes, microtasks, uncaught>>
  /\ UNCHANGED barVars

\* Mutant: the timeout callback also runs the score bar reset.
TimerFiresResetsBars ==
  /\ Idle
  /\ timers # <<>>
  /\ Head(timers).remaining = 0
  /\ btn' = Head(timers).orig
  /\ timers' = Tail(timers)
  /\ calls' = [calls EXCEPT ![Head(timers).inv].timer = "fired"]
  /\ width' = [e \in Els |-> "0"]
  /\ widthLog' = [e \in Els |-> Append(widthLog[e], "0")]
  /\ UNCHANGED <<hasClipboard, btnPresent, btn0, clipboard, bodyChildren,
                 writes, microtasks, uncaught>>
  /\ UNCHANGED <<loaded, target, barPc, rafNext, rafCur, framesSince, authored>>

\* Mutant: the originals are kept in variables shared by all flashes, so a
\* callback restores what the latest flash captured.
TimerFiresRestoresLatestCapture ==
  /\ Idle
  /\ timers # <<>>
  /\ Head(timers).remaining = 0
  /\ btn' = timers[Len(timers)].orig
  /\ timers' = Tail(timers)
  /\ calls' = [calls EXCEPT ![Head(timers).inv].timer = "fired"]
  /\ UNCHANGED <<hasClipboard, btnPresent, btn0, clipboard, bodyChildren,
                 writes, microtasks, uncaught>>
  /\ UNCHANGED barVars

\* The setTimeout callback of the earliest flash (lines 66-70).
TimerFires ==
  /\ Idle
  /\ timers # <<>>
  /\ Head(timers).remaining = 0
  /\ btn' = Head(timers).orig
  /\ timers' = Tail(timers)
  /\ calls' = [calls EXCEPT ![Head(timers).inv].timer = "fired"]
  /\ UNCHANGED <<hasClipboard, btnPresent, btn0, clipboard, bodyChildren,
                 writes, microtasks, uncaught>>
  /\ UNCHANGED barVars

Next ==
  \/ DOMContentLoaded
  \/ BeginFrame
  \/ OuterFrameCallback
  \/ InnerFrameCallback
  \/ CopyLinkLegacy
  \/ CopyLinkAsync
  \/ WriteResolves
  \/ WriteRejects
  \/ ThenReaction
  \/ CatchReaction
  \/ Tick
  \/ TimerFires

Spec == Init /\ [][Next]_vars

\* The event loop runs what it has queued: a frame's callbacks, the promise
\* reactions, and, as time passes, the timers that are due.
Fairness ==
  /\ WF_vars(OuterFrameCallback)
  /\ WF_vars(InnerFrameCallback)
  /\ WF_vars(ThenReaction)
  /\ WF_vars(CatchReaction)
  /\ WF_vars(Tick)
  /\ WF_vars(TimerFires)

FairSpec == Spec /\ Fairness

\* ================================================================ claims

Calls == 1..Len(calls)

\* The flash of invocation i has been run with exactly this label and colours.
FlashedWith(i, label, bg, color) ==
  calls[i].flash = << [label |-> label, bg |-> bg, color |-> color] >>

\* C1: once an element's reveal sequence (zero-set, first frame callback,
\* second frame callback) has completed, its width equals the width it had
\* before the handler ran, in that state and in every later one, whatever
\* frames, copyLink calls, clipboard completions and timers are interleaved.
C1_RevealedWidthIsAuthored ==
  \A e \in Els : barPc[e] = "done" => width[e] = authored[e]

\* An element authored at 73% is revealed and a flash has come and gone since.
C1_Witness ==
  \E e \in Els :
    /\ barPc[e] = "done"
    /\ authored[e] = "73%"
    /\ width[e] = "73%"
    /\ \E i \in Calls : calls[i].timer = "fired"

\* C2: in every state after the zero-set of the DOMContentLoaded handler and
\* before the element's restore callback has run, the width is exactly '0'.
C2_ZeroUntilRestore ==
  \A e \in Els : barPc[e] \in {"zeroed", "frame1"} => width[e] = "0"

\* An element authored at 73% stands at '0' after the first frame callback.
C2_Witness ==
  \E e \in Els : barPc[e] = "frame1" /\ authored[e] = "73%" /\ width[e] = "0"

\* C3: the restore never happens in the step of the zero-set nor in the first
\* frame callback: the first callback leaves the width at '0', and the width
\* becomes target only in the second (nested) callback, two frames after the
\* zero-set.
C3_RestoreOnlyInSecondFrame ==
  [][\A e \in Els :
       /\ (barPc[e] = "init" /\ barPc'[e] # "init")
            => (barPc'[e] = "zeroed" /\ width'[e] = "0")
       /\ (barPc[e] = "zeroed" /\ barPc'[e] # "zeroed")
            => (barPc'[e] = "frame1" /\ width'[e] = "0" /\ framesSince'[e] = 1)
       /\ (barPc[e] # "done" /\ barPc'[e] = "done")
            => (barPc[e] = "frame1" /\ framesSince[e] >= 2
                /\ width[e] = "0" /\ width'[e] = target[e])
       /\ (barPc[e] # "init" /\ width'[e] # width[e])
            => (barPc[e] = "frame1" /\ barPc'[e] = "done")]_vars

\* An element authored at 73% has been restored in the second frame.
C3_Witness ==
  \E e \in Els :
    barPc[e] = "done" /\ framesSince[e] = 2 /\ authored[e] = "73%" /\ width[e] = "73%"

\* C4: with the async capability and #copy-btn present, when the write of an
\* invocation resolves the button becomes 'U+2713 Copied!' on '#c6f6d5' in
\* '#276749' and a timer of 2200 ms is started; when that timer expires the
\* label, background and colour are set to what the button had just before
\* that flash.
C4_SuccessFlashThenRevert ==
  [][\A i \in Calls :
       /\ (/\ hasClipboard /\ btnPresent
           /\ calls[i].p1 = "fulfilled"
           /\ calls[i].p2 = "pending" /\ calls'[i].p2 # "pending")
            => (/\ btn' = [label |-> "U+2713 Copied!", bg |-> "#c6f6d5",
                           color |-> "#276749"]
                /\ calls'[i].prior = btn
                /\ calls'[i].timer = "pending"
                /\ Len(timers') = Len(timers) + 1
                /\ timers'[Len(timers')].inv = i
                /\ timers'[Len(timers')].remaining = 2200)
       /\ (/\ hasClipboard /\ btnPresent
           /\ calls[i].p1 = "fulfilled"
           /\ calls[i].timer = "pending" /\ calls'[i].timer = "fired")
            => (/\ btn' = calls[i].prior
                /\ Head(timers).inv = i
                /\ Head(timers).remaining = 0)]_vars

\* A success flash on a button labelled 'Copy' has been reverted to 'Copy'.
C4_Witness ==
  /\ hasClipboard
  /\ btnPresent
  /\ \E i \in Calls :
       /\ calls[i].p1 = "fulfilled"
       /\ FlashedWith(i, "U+2713 Copied!", "#c6f6d5", "#276749")
       /\ calls[i].timer = "fired"
       /\ calls[i].prior.label = "Copy"
       /\ btn = calls[i].prior

\* The steps of invocation i's promise chain on a rejected write: the
\* rejection itself and the two reactions that follow it.
RejectionStep(i) ==
  /\ calls[i].p1 \in {"pending", "rejected"}
  /\ calls'[i].p1 = "rejected"
  /\ <<calls'[i].p1, calls'[i].p2, calls'[i].p3>> # <<calls[i].p1, calls[i].p2, calls[i].p3>>

\* C5: a rejected write is never propagated as an error: no exception reaches
\* copyLink's caller and the promise chain ends fulfilled.  Its only effect is
\* that #copy-btn, if present, shows 'Failed' on '#fed7d7' in '#9b2c2c', and
\* when the 2200 ms timer expires the button is set to its prior label and
\* colours.
C5_RejectionOnlyFlashesFailed ==
  /\ [](/\ ~uncaught
        /\ \A i \in Calls :
             /\ calls[i].p3 # "rejected"
             /\ (calls[i].p1 = "rejected" /\ calls[i].p3 # "pending")
                  => FlashedWith(i, "Failed", "#fed7d7", "#9b2c2c"))
  /\ [][\A i \in Calls :
          /\ RejectionStep(i)
               => (/\ UNCHANGED <<clipboard, bodyChildren, uncaught>>
                   /\ UNCHANGED barVars
                   /\ (calls[i].p1 = "rejected" => writes' = writes)
                   /\ (calls'[i].flash = calls[i].flash \/ ~btnPresent)
                        => UNCHANGED <<btn, timers>>)
          /\ (/\ RejectionStep(i) /\ btnPresent
              /\ calls'[i].flash # calls[i].flash)
               => (/\ btn' = [label |-> "Failed", bg |-> "#fed7d7",
                              color |-> "#9b2c2c"]
                   /\ calls'[i].prior = btn
                   /\ timers'[Len(timers')].inv = i
                   /\ timers'[Len(timers')].remaining = 2200)
          /\ (/\ calls[i].p1 = "rejected"
              /\ calls[i].timer = "pending" /\ calls'[i].timer = "fired")
               => (/\ btn' = calls[i].prior
                   /\ Head(timers).inv = i
                   /\ Head(timers).remaining = 0)]_vars

\* A 'Failed' flash on a button labelled 'Copy' has been reverted to 'Copy'.
C5_Witness ==
  /\ btnPresent
  /\ ~uncaught
  /\ \E i \in Calls :
       /\ calls[i].p1 = "rejected"
       /\ calls[i].p3 = "fulfilled"
       /\ FlashedWith(i, "Failed", "#fed7d7", "#9b2c2c")
       /\ calls[i].timer = "fired"
       /\ calls[i].prior.label = "Copy"
       /\ btn = calls[i].prior

\* No flash is pending or still to come from the invocations made so far.
AllFlashesOver ==
  /\ timers = <<>>
  /\ microtasks = <<>>
  /\ \A k \in 1..Len(writes) : writes[k].outcome # "pending"

\* C6: after any sequence of copyLink invocations, sequential or overlapping,
\* once every flash timer has expired the button's label, background and
\* colour equal the values it had before the first invocation.
C6_NoDriftAfterAllTimers ==
  (btnPresent /\ Len(calls) > 0 /\ AllFlashesOver) => btn = btn0

\* C7: without the async capability every copyLink call runs the success
\* flash ('U+2713 Copied!', '#c6f6d5', '#276749') whatever the legacy copy
\* command returned, and no temporary textarea is attached to the document
\* in any state outside the call.
C7_LegacyAlwaysFlashesSuccess ==
  /\ [](/\ bodyChildren = {}
        /\ ~hasClipboard =>
             \A i \in Calls :
               /\ FlashedWith(i, "U+2713 Copied!", "#c6f6d5", "#276749")
               /\ btnPresent => calls[i].timer # "none")
  /\ [][(~hasClipboard /\ btnPresent /\ Len(calls') > Len(calls))
          => btn' = [label |-> "U+2713 Copied!", bg |-> "#c6f6d5",
                     color |-> "#276749"]]_vars

\* A call whose legacy copy command failed shows the success flash, the
\* clipboard does not hold its url, and no textarea is attached.
C7_Witness ==
  /\ ~hasClipboard
  /\ btnPresent
  /\ bodyChildren = {}
  /\ \E i \in Calls :
       /\ ~calls[i].legacyOk
       /\ clipboard # calls[i].url
       /\ FlashedWith(i, "U+2713 Copied!", "#c6f6d5", "#276749")
       /\ btn = [label |-> "U+2713 Copied!", bg |-> "#c6f6d5", color |-> "#276749"]

\* The write requests made for invocation i.
WritesOf(i) == {k \in 1..Len(writes) : writes[k].inv = i}

\* C8: with no element of id 'copy-btn', copyLink completes without error on
\* the async and on the legacy path (nothing is thrown to the caller, no
\* promise of the chain ends rejected), the clipboard write is still
\* performed, the flash changes no DOM state and schedules no timer.
C8_NoButtonFlashIsNoOp ==
  ~btnPresent =>
    /\ btn = btn0
    /\ timers = <<>>
    /\ bodyChildren = {}
    /\ ~uncaught
    /\ \A i \in Calls :
         /\ calls[i].p3 # "rejected"
         /\ calls[i].timer = "none"
         /\ Cardinality(WritesOf(i)) = 1
         /\ \A k \in WritesOf(i) : writes[k].text = calls[i].url

\* Without a button, a flash has been run and the url is on the clipboard.
C8_Witness ==
  /\ ~btnPresent
  /\ \E i \in Calls :
       /\ calls[i].flash # <<>>
       /\ clipboard = calls[i].url
       /\ calls[i].p3 \in {"none", "fulfilled"}

\* C9 as stated: an element whose width is the empty string at
\* DOMContentLoaded is at width '0' in every state after its reveal sequence
\* has completed.
C9_UnsetEndsAtZero ==
  \A e \in Els : (authored[e] = "" /\ barPc[e] = "done") => width[e] = "0"

\* C9, amended: an element whose width is the empty string at
\* DOMContentLoaded has width '0' exactly from the zero-set until its second
\* frame callback, and after that its width is the empty string again, in
\* every later state.
C9_UnsetEndsUnset ==
  \A e \in Els :
    authored[e] = "" =>
      /\ barPc[e] = "done" => width[e] = ""
      /\ width[e] = "0" <=> barPc[e] \in {"zeroed", "frame1"}

\* An element authored without a width has been through its reveal sequence.
C9_Witness ==
  \E e \in Els : authored[e] = "" /\ barPc[e] = "done" /\ width[e] = ""

\* C10: every copyLink(url) invocation makes exactly one clipboard write
\* attempt, with the string url it was given; a rejection issues no further
\* write; and the text a successful write puts on the clipboard is that
\* invocation's url, also when several invocations are in flight.
C10_OneWritePerInvocation ==
  /\ [](/\ Len(writes) = Len(calls)
        /\ \A i \in Calls :
             /\ Cardinality(WritesOf(i)) = 1
             /\ \A k \in WritesOf(i) : writes[k].text = calls[i].url)
  /\ [][/\ \A k \in 1..Len(writes') :
             (/\ writes'[k].outcome = "ok"
              /\ (k > Len(writes) \/ writes[k].outcome = "pending"))
               => clipboard' = calls'[writes'[k].inv].url
        /\ clipboard' # clipboard =>
             \E k \in 1..Len(writes') :
               /\ writes'[k].outcome = "ok"
               /\ (k > Len(writes) \/ writes[k].outcome = "pending")
        /\ \A k \in 1..Len(writes) :
             (writes[k].outcome = "pending" /\ writes'[k].outcome = "rejected")
               => (Len(writes') = Len(writes) /\ clipboard' = clipboard)
        /\ Len(calls') = Len(calls) => Len(writes') = Len(writes)]_vars

\* Two invocations with different urls were in flight together: the later
\* one's write succeeded and its url is on the clipboard, the earlier one's
\* was rejected, its failure flash has run, and there are two writes in all.
C10_Witness ==
  /\ Len(writes) = 2
  /\ \E i, j \in Calls :
       /\ i < j
       /\ calls[i].url # calls[j].url
       /\ calls[i].p1 = "rejected"
       /\ calls[i].p3 = "fulfilled"
       /\ calls[j].p1 = "fulfilled"
       /\ clipboard = calls[j].url

\* The flash calls invocation i has made so far, also before it exists.
FlashesOf(cs, i) == IF i <= Len(cs) THEN Len(cs[i].flash) ELSE 0

\* C11: the button goes Idle -> Flashing -> Idle on flash calls and timer
\* expiry alone: every flash that finds the button appends exactly one
\* restore timer, a pending timer is never cancelled or changed and leaves
\* only by expiring, and with the event loop running its timers the system
\* reaches, again and again, a state with no pending flash timer.
C11_EveryTimerExpires ==
  /\ [][/\ \A i \in 1..Len(calls') :
             (btnPresent /\ FlashesOf(calls', i) > FlashesOf(calls, i))
               => (/\ Len(timers') = Len(timers) + 1
                   /\ SubSeq(timers', 1, Len(timers)) = timers
                   /\ timers'[Len(timers')].inv = i
                   /\ timers'[Len(timers')].remaining = 2200)
        /\ Len(timers') > Len(timers) =>
             \E i \in 1..Len(calls') : FlashesOf(calls', i) > FlashesOf(calls, i)
        /\ Len(timers') < Len(timers) =>
             (/\ timers' = Tail(timers)
              /\ Head(timers).remaining = 0
              /\ calls[Head(timers).inv].timer = "pending"
              /\ calls'[Head(timers).inv].timer = "fired")
        /\ Len(timers') = Len(timers) =>
             \A k \in 1..Len(timers) :
               /\ timers'[k].inv = timers[k].inv
               /\ timers'[k].orig = timers[k].orig
               /\ timers'[k].remaining <= timers[k].remaining]_vars
  /\ []<>(timers = <<>>)

\* Two flashes have each had their timer expire and none is pending.
C11_Witness ==
  /\ btnPresent
  /\ timers = <<>>
  /\ Len(calls) >= 2
  /\ \A i \in Calls : calls[i].timer = "fired"

\* C12: for every flash, overlapping or not and on either path, the step in
\* which that flash's own timer expires sets the button's label, background
\* and colour to the triple the button had when that flash started, whatever
\* other flashes wrote in between.
C12_TimerRestoresOwnCapture ==
  [][\A i \in Calls :
       (calls[i].timer = "pending" /\ calls'[i].timer = "fired")
         => (/\ btn'.label = calls[i].prior.label
             /\ btn'.bg = calls[i].prior.bg
             /\ btn'.color = calls[i].prior.color)]_vars

\* The timer of one flash has expired while a later flash, which captured a
\* different triple, is still pending: the button shows the first capture.
C12_Witness ==
  \E i, j \in Calls :
    /\ calls[i].timer = "fired"
    /\ calls[j].timer = "pending"
    /\ calls[j].prior # calls[i].prior
    /\ btn = calls[i].prior
    /\ Len(timers) = 1

\* Flash j started while the timer of flash i, and no other, was pending, and
\* flash i had started with no timer pending.
SecondOverFirst(i, j) ==
  /\ calls[i].timer # "none"
  /\ calls[i].over = <<>>
  /\ calls[j].timer # "none"
  /\ calls[j].over = <<i>>

\* C13: if a second flash starts while the first flash's timer is pending,
\* the second captures the first flash's feedback label and colours as its
\* original; the timers expire in start order, and when the second has
\* expired too the button shows the first flash's feedback label and
\* colours, not the values it was authored with.
C13_OverlapLeavesFirstFeedback ==
  /\ [](\A i, j \in Calls :
          SecondOverFirst(i, j) =>
            /\ calls[j].prior = calls[i].flash[1]
            /\ calls[j].prior.label \in {"U+2713 Copied!", "Failed"}
            /\ calls[j].timer = "fired" => calls[i].timer = "fired")
  /\ [][\A i, j \in Calls :
          (/\ SecondOverFirst(i, j)
           /\ calls[j].timer = "pending" /\ calls'[j].timer = "fired")
            => (/\ calls[i].timer = "fired"
                /\ btn' = calls[i].flash[1]
                /\ btn'.label \in {"U+2713 Copied!", "Failed"}
                /\ btn' # btn0)]_vars

\* Two overlapping flashes on the authored button have both expired and the
\* button shows the first one's feedback.
C13_Witness ==
  /\ timers = <<>>
  /\ \E i, j \in Calls :
       /\ SecondOverFirst(i, j)
       /\ calls[i].timer = "fired"
       /\ calls[j].timer = "fired"
       /\ calls[i].prior = btn0
       /\ btn = calls[i].flash[1]
       /\ btn # btn0

\* C14: the clipboard path is chosen by the capability check alone.  With
\* navigator.clipboard available no invocation takes the fallback branch: no
\* textarea is attached and no write goes through the legacy copy command.
\* Without it no invocation calls the async write, no promise reaction is
\* ever queued, and the flash has run by the time copyLink returns.
C14_PathByCapabilityOnly ==
  /\ hasClipboard =>
       /\ bodyChildren = {}
       /\ \A i \in Calls : calls[i].path = "async" /\ calls[i].p1 # "none"
       /\ \A k \in 1..Len(writes) : writes[k].via = "writeText"
  /\ ~hasClipboard =>
       /\ microtasks = <<>>
       /\ \A k \in 1..Len(writes) :
            writes[k].via = "execCommand" /\ writes[k].outcome # "pending"
       /\ \A i \in Calls :
            /\ calls[i].path = "legacy"
            /\ calls[i].p1 = "none"
            /\ Len(calls[i].flash) = 1
            /\ btnPresent => calls[i].timer # "none"

\* With the capability present an invocation's write is in flight through
\* writeText and no flash has run for it yet.
C14_Witness ==
  /\ hasClipboard
  /\ bodyChildren = {}
  /\ \E i \in Calls :
       /\ calls[i].path = "async"
       /\ calls[i].p1 = "pending"
       /\ calls[i].flash = <<>>
       /\ \E k \in WritesOf(i) : writes[k].via = "writeText"

\* C15: the reveal and the copy share no state.  No copyLink call, clipboard
\* completion, promise reaction, clock tick or flash timer changes a score
\* bar's width, its captured target or its pending frame callbacks; and the
\* DOMContentLoaded handler and the frame callbacks change neither the
\* button's label and colours nor the clipboard, the pending writes, the
\* timers or anything else of the copy.
C15_RevealAndCopyAreDisjoint ==
  [][/\ (\/ calls' # calls \/ writes' # writes \/ timers' # timers
         \/ microtasks' # microtasks \/ btn' # btn \/ clipboard' # clipboard
         \/ bodyChildren' # bodyChildren \/ uncaught' # uncaught)
          => UNCHANGED <<loaded, width, target, barPc, rafNext, rafCur>>
     /\ (\/ loaded' # loaded \/ width' # width \/ target' # target
         \/ barPc' # barPc \/ rafNext' # rafNext \/ rafCur' # rafCur)
          => UNCHANGED <<btn, clipboard, bodyChildren, calls, writes,
                         microtasks, timers, uncaught>>]_vars

\* A bar is revealed while a flash shows on the button and a url is on the
\* clipboard: both components have acted in the same behaviour.
C15_Witness ==
  /\ \E e \in Els : barPc[e] = "done" /\ width[e] = "73%"
  /\ btnPresent
  /\ btn # btn0
  /\ timers # <<>>
  /\ clipboard # ""

\* C16: on the async path each invocation runs exactly one flash, once its
\* write has settled: the success flash if the write was fulfilled, the
\* failure flash if it was rejected, never both; and neither the call itself
\* nor the settling of the write changes the button or starts a timer.
C16_OneFlashPerAsyncInvocation ==
  /\ [](hasClipboard =>
          \A i \in Calls :
            /\ Len(calls[i].flash) <= 1
            /\ calls[i].p1 = "pending" => (calls[i].flash = <<>> /\ calls[i].timer = "none")
            /\ calls[i].p3 = "fulfilled" => Len(calls[i].flash) = 1
            /\ (calls[i].flash # <<>> /\ calls[i].p1 = "fulfilled")
                 => FlashedWith(i, "U+2713 Copied!", "#c6f6d5", "#276749")
            /\ (calls[i].flash # <<>> /\ calls[i].p1 = "rejected")
                 => FlashedWith(i, "Failed", "#fed7d7", "#9b2c2c"))
  /\ [][hasClipboard =>
          /\ Len(calls') > Len(calls) => UNCHANGED <<btn, timers>>
          /\ \A i \in Calls :
               (calls[i].p1 = "pending" /\ calls'[i].p1 # "pending")
                 => UNCHANGED <<btn, timers>>]_vars

\* One invocation has run the success flash alone and another the failure
\* flash alone, both chains being over.
C16_Witness ==
  /\ hasClipboard
  /\ btnPresent
  /\ \E i, j \in Calls :
       /\ calls[i].p1 = "fulfilled" /\ calls[i].p3 = "fulfilled"
       /\ FlashedWith(i, "U+2713 Copied!", "#c6f6d5", "#276749")
       /\ calls[j].p1 = "rejected" /\ calls[j].p3 = "fulfilled"
       /\ FlashedWith(j, "Failed", "#fed7d7", "#9b2c2c")

\* C17: with several score bars of different authored widths, the script
\* assigns each element's width exactly twice, first '0' and then the
\* element's own authored width, never another element's; at no point has it
\* assigned more, and the width shown is always the last value assigned.
C17_EachBarWrittenTwiceWithOwnTarget ==
  \A e \in Els :
    /\ barPc[e] = "init" => (widthLog[e] = <<>> /\ width[e] = authored[e])
    /\ barPc[e] \in {"zeroed", "frame1"} => widthLog[e] = <<"0">>
    /\ barPc[e] = "done" => widthLog[e] = <<"0", authored[e]>>
    /\ widthLog[e] # <<>> => width[e] = widthLog[e][Len(widthLog[e])]
    /\ barPc[e] # "init" => target[e] = authored[e]

\* Two elements authored with different widths have both been revealed, each
\* at its own width.
C17_Witness ==
  \E e, f \in Els :
    /\ authored[e] # authored[f]
    /\ barPc[e] = "done" /\ barPc[f] = "done"
    /\ width[e] = authored[e] /\ width[f] = authored[f]
    /\ Len(widthLog[e]) = 2 /\ Len(widthLog[f]) = 2

====
